---- MODULE Spec2Model ----
(***************************************************************************)
(* Model of the virtual-human render-stream pipeline of lobe-vidol:        *)
(* VirtualHumanController (state machine, bounded history, error           *)
(* recovery timer), the SegmentationModule it drives, and the              *)
(* CameraModeAdapter that fronts it (Spec, FairSpec); and, each run on its *)
(* own, TransitionModule.transition (TransitionSpec), the history object   *)
(* with the references handed out to it (HistorySpec), the streaming       *)
(* SmartSentenceSegmenter (SegmenterSpec), SegmentationModule.segment      *)
(* (SegmentationSpec), GenerationModule.generate (GenerationSpec), the     *)
(* session's stream callbacks with StreamIntegration (StreamSpec) and the  *)
(* adapter's speech playback over the controller (AdapterSpec, and         *)
(* AdapterFairSpec with the event loop's scheduling).                      *)
(*                                                                         *)
(* Execution model.  The code is single-threaded JavaScript.  Every        *)
(* `await` of processAIResponse is a point where the call is suspended and *)
(* other code runs; one action of this model is the synchronous run of a   *)
(* call from one suspension point to the next.  A call suspended on a      *)
(* promise that is already resolved is a pending microtask; a call         *)
(* suspended in TransitionModule.transition waits for setTimeout (a        *)
(* macrotask).  The recovery timer is a macrotask too, so it only fires    *)
(* when no microtask is pending.                                           *)
(*                                                                         *)
(* Characters are modelled by one-character strings.  ASCII stand-ins:     *)
(*   "."  for the full stop  U+3002      "!"  for U+FF01                   *)
(*   "?"  for U+FF1F                     ";"  for U+FF1B                   *)
(*   "\n" for the line feed              " "  for a blank                  *)
(***************************************************************************)
EXTENDS Integers, Sequences, FiniteSets, TLC

\* ---------------------------------------------------------------- bounds
\* Number of processAIResponse / handleAIResponse invocations explored.
MaxCalls == 2

\* history.maxHistory (50 in the constructor), scaled down so that eviction
\* happens within MaxCalls submissions.
maxHistory == 3

\* Number of streams pushed onto a history (by the controller or by the
\* holder of a returned history) in the runs of the history object on its own.
MaxPushes == 4

\* Number of processNewContent calls made on one SmartSentenceSegmenter.
MaxChunks == 5

\* ------------------------------------------------------------- constants
IDLE == "idle"
PROCESSING == "processing"
TRANSITIONING == "transitioning"
RENDERING == "rendering"
ERROR == "error"

RenderStreamState == {IDLE, PROCESSING, TRANSITIONING, RENDERING, ERROR}

\* SegmentationModule config defaults.
minSegmentLength == 10
maxSegmentLength == 100
punctuationMarks == {".", "!", "?", ";", ","}

\* CameraModeAdapter: size of processedStreamIds above which it is cleared.
processedStreamIdsLimit == 100

CallIds == 1..MaxCalls

\* The texts submitted to the controller.
Texts == { <<"a">>, <<"a", ".", "b", "!">> }

NoStream == [streamId |-> "", text |-> <<>>]

\* ------------------------------------------------- SegmentationModule.ts
SentenceBoundary == {".", "!", "?", ";", "\n"}
WhiteSpace == {" ", "\n"}

Min(S) == CHOOSE x \in S : \A y \in S : x <= y

\* Length of the longest prefix of t whose characters are all in S (inS) or
\* all outside S (~inS).
RunLength(t, S, inS) ==
  LET other == {i \in 1..Len(t) : (t[i] \in S) # inS}
  IN  IF other = {} THEN Len(t) ELSE Min(other) - 1

RECURSIVE trimStart(_)
trimStart(t) ==
  IF t # <<>> /\ Head(t) \in WhiteSpace THEN trimStart(Tail(t)) ELSE t

RECURSIVE trimEnd(_)
trimEnd(t) ==
  IF t # <<>> /\ t[Len(t)] \in WhiteSpace
  THEN trimEnd(SubSeq(t, 1, Len(t) - 1)) ELSE t

trim(t) == trimEnd(trimStart(t))

RECURSIVE sentenceMatches(_)
\* text.match(/[^B]+[B]*/g): each match is a maximal run of non-boundary
\* characters followed by the boundary characters after it; boundary
\* characters before the first such run match nothing.
sentenceMatches(t) ==
  IF t = <<>> THEN <<>>
  ELSE IF Head(t) \in SentenceBoundary THEN sentenceMatches(Tail(t))
  ELSE LET n1 == RunLength(t, SentenceBoundary, FALSE)
           n2 == RunLength(SubSeq(t, n1 + 1, Len(t)), SentenceBoundary, TRUE)
       IN  <<SubSeq(t, 1, n1 + n2)>> \o
           sentenceMatches(SubSeq(t, n1 + n2 + 1, Len(t)))

RECURSIVE MapTrimNonEmpty(_)
MapTrimNonEmpty(ss) ==
  IF ss = <<>> THEN <<>>
  ELSE LET s == trim(Head(ss))
       IN  (IF Len(s) > 0 THEN <<s>> ELSE <<>>) \o MapTrimNonEmpty(Tail(ss))

splitIntoSentences(text) == MapTrimNonEmpty(sentenceMatches(text))

RECURSIVE splitLongLoop(_, _)
\* The for-loop of splitLongSentence: words still to read, currentSegment.
\* It is followed from one push to the next: the next push is at the first
\* word that is a punctuation mark and makes currentSegment at least
\* minSegmentLength long.
splitLongLoop(words, currentSegment) ==
  LET marks == {p \in 1..Len(words) :
                  /\ words[p] \in punctuationMarks
                  /\ Len(currentSegment) + p >= minSegmentLength}
  IN  IF marks = {}
      THEN IF trim(currentSegment \o words) # <<>>
           THEN <<currentSegment \o words>> ELSE <<>>
      ELSE <<currentSegment \o SubSeq(words, 1, Min(marks))>> \o
           splitLongLoop(SubSeq(words, Min(marks) + 1, Len(words)), <<>>)

\* A module that never splits a long sentence.
splitLongSentence_whole(sentence) == <<sentence>>

splitLongSentence(sentence) == splitLongLoop(sentence, <<>>)

RECURSIVE segmentLoop(_)
segmentLoop(sentences) ==
  IF sentences = <<>> THEN <<>>
  ELSE (IF Len(Head(sentences)) > maxSegmentLength
        THEN splitLongSentence(Head(sentences))
        ELSE <<Head(sentences)>>) \o segmentLoop(Tail(sentences))

\* SegmentationModule.segment: the texts of the segments, in order.
segment(text) == segmentLoop(splitIntoSentences(text))

\* config.emotionKeywords in table order.  Two-letter stand-ins for the
\* two-character keywords of the source (they share characters as those
\* do).
emotionKeywords ==
  << [keyword |-> <<"k", "x">>, emotion |-> "happy"],
     [keyword |-> <<"g", "x">>, emotion |-> "happy"],
     [keyword |-> <<"k", "l">>, emotion |-> "happy"],
     [keyword |-> <<"f", "n">>, emotion |-> "angry"],
     [keyword |-> <<"s", "q">>, emotion |-> "angry"],
     [keyword |-> <<"b", "s">>, emotion |-> "sad"],
     [keyword |-> <<"n", "g">>, emotion |-> "sad"],
     [keyword |-> <<"k", "q">>, emotion |-> "cry"],
     [keyword |-> <<"j", "y">>, emotion |-> "surprised"],
     [keyword |-> <<"h", "p">>, emotion |-> "fear"],
     [keyword |-> <<"k", "j">>, emotion |-> "fear"],
     [keyword |-> <<"y", "w">>, emotion |-> "disgust"],
     [keyword |-> <<"e", "x">>, emotion |-> "disgust"] >>

\* String.prototype.includes
includes(text, word) ==
  \E i \in 1..(Len(text) - Len(word) + 1) :
    SubSeq(text, i, i + Len(word) - 1) = word

\* A module that looks at the marks before the keywords.
analyzeEmotion_marksFirst(text) ==
  LET hits == {i \in 1..Len(emotionKeywords) :
                 includes(text, emotionKeywords[i].keyword)}
  IN  IF includes(text, <<"!">>) \/ includes(text, <<"?">>) THEN "surprised"
      ELSE IF hits # {} THEN emotionKeywords[Min(hits)].emotion
      ELSE "neutral"

\* analyzeEmotion: the loop over the table returns at the first keyword
\* the text includes; then the exclamation and the question mark.
analyzeEmotion(text) ==
  LET hits == {i \in 1..Len(emotionKeywords) :
                 includes(text, emotionKeywords[i].keyword)}
  IN  IF hits # {} THEN emotionKeywords[Min(hits)].emotion
      ELSE IF includes(text, <<"!">>) THEN "surprised"
      ELSE IF includes(text, <<"?">>) THEN "surprised"
      ELSE "neutral"

RECURSIVE segmentEmotionLoop(_)
\* The loop of segment again, for what goes with each text: the emotion,
\* analysed once per sentence and given to every segment made of it, and
\* the sentence the segment was made of.
segmentEmotionLoop(sentences) ==
  IF sentences = <<>> THEN <<>>
  ELSE LET sentence == Head(sentences)
           n == IF Len(sentence) > maxSegmentLength
                THEN Len(splitLongSentence(sentence)) ELSE 1
       IN  [k \in 1..n |-> [emotion |-> analyzeEmotion(sentence), of |-> sentence]]
           \o segmentEmotionLoop(Tail(sentences))

segmentEmotions(text) == segmentEmotionLoop(splitIntoSentences(text))

\* --------------------------------------------- VirtualHumanController
VARIABLES
  state,               \* this.state
  stateChanged,        \* number of 'stateChanged' events emitted
  history,             \* this.history: [streams, currentIndex]
  config,              \* this.config
  modules,             \* names registered in this.modules
  hasListeners,        \* the adapter's listeners are attached
  destroyed,           \* destroy() has been called
  calls,               \* the invocations of processAIResponse
  timers,              \* pending recovery timers (by the call that set them)
  nextId,              \* source of fresh streamIds
  isProcessing,        \* CameraModeAdapter.isProcessing
  processedStreamIds,  \* CameraModeAdapter.processedStreamIds
  ready,               \* streamIds of the 'renderStreamReady' events, in order
  errors,              \* the 'error' events delivered, in order
  appendLog,           \* streamIds passed to addToHistory, in order
  clearedAt,           \* Len(appendLog) at the last clearHistory
  origin,              \* origin[id]: the call and segment index id was made for
  timerFiredIn,        \* state the latest recovery timer found, or "none"
  tm,                  \* a TransitionModule.transition call driven on its own
  hs,                  \* the history object, its arrays and a getHistory result
  sg,                  \* a SmartSentenceSegmenter and what it has returned
  si,                  \* a StreamIntegration, its adapter and what was forwarded
  sm,                  \* a text and what SegmentationModule.segment made of it
  gm,                  \* a GenerationModule, its history and two generate results
  sp                   \* sp[id]: how speech playback of stream id ended

controllerVars ==
  <<state, stateChanged, history, config, modules, hasListeners,
    destroyed, calls, timers, nextId, isProcessing, processedStreamIds,
    ready, errors, appendLog, clearedAt, origin, timerFiredIn>>

\* The components that are modelled on their own, outside the controller run.
componentVars == <<tm, hs, sg, si, sm, gm, sp>>

vars == <<state, stateChanged, history, config, modules, hasListeners,
          destroyed, calls, timers, nextId, isProcessing, processedStreamIds,
          ready, errors, appendLog, clearedAt, origin, timerFiredIn,
          tm, hs, sg, si, sm, gm, sp>>


\* VirtualHumanFactory.createDefaultController / createHighPerformanceController
\* differ in enableSeamlessTransition; both register the three modules.
AllModules == {"segmentation", "generation", "transition"}

NoError == [name |-> "none", of |-> ""]

NewCall == [pc |-> "new", via |-> "direct", segments |-> <<>>, i |-> 0,
            cur |-> NoStream, error |-> NoError, fin |-> FALSE]

ControllerInit ==
  /\ state = IDLE
  /\ stateChanged = 0
  /\ history = [streams |-> <<>>, currentIndex |-> -1]
  /\ config \in [enableSeamlessTransition : BOOLEAN,
                 enableSmartSegmentation : {TRUE}]
  /\ modules = AllModules
  /\ hasListeners = TRUE
  /\ destroyed = FALSE
  /\ calls = [c \in CallIds |-> NewCall]
  /\ timers = {}
  /\ nextId = 1
  /\ isProcessing = FALSE
  /\ processedStreamIds = {}
  /\ ready = <<>>
  /\ errors = <<>>
  /\ appendLog = <<>>
  /\ clearedAt = 0
  /\ origin = <<>>
  /\ timerFiredIn = "none"

ComponentsIdle ==
  /\ tm = <<>>
  /\ hs = <<>>
  /\ sg = <<>>
  /\ si = <<>>
  /\ sm = <<>>
  /\ gm = <<>>
  /\ sp = <<>>

Init == ControllerInit /\ ComponentsIdle

\* generateStreamId: `stream_${Date.now()}_${random}`, a fresh id each time.
generateStreamId(n) == "stream_" \o ToString(n)

\* setState: assign and emit 'stateChanged'.
setState(newState) ==
  /\ state' = newState
  /\ stateChanged' = stateChanged + 1

\* addToHistory without the eviction of the oldest entry.
addToHistory_noEvict(h, stream) ==
  [streams |-> Append(h.streams, stream), currentIndex |-> Len(h.streams)]

\* addToHistory without `currentIndex--` after the shift.
addToHistory_noDecrement(h, stream) ==
  LET pushed == Append(h.streams, stream)
  IN  [streams |-> IF Len(pushed) > maxHistory THEN Tail(pushed) ELSE pushed,
       currentIndex |-> Len(pushed) - 1]

\* addToHistory: push, point the cursor at the last entry, evict the oldest
\* entry when the capacity is exceeded.
addToHistory(h, stream) ==
  LET pushed == Append(h.streams, stream)
      idx == Len(pushed) - 1
  IN  IF Len(pushed) > maxHistory
      THEN [streams |-> Tail(pushed), currentIndex |-> idx - 1]
      ELSE [streams |-> pushed, currentIndex |-> idx]

\* clearHistory (the 'historyCleared' event is not tracked).
clearedHistory == [streams |-> <<>>, currentIndex |-> -1]

\* segmentText: the segmentation module when registered and enabled, else
\* the whole text as one segment.
segmentText(text) ==
  IF "segmentation" \in modules /\ config.enableSmartSegmentation
  THEN [k \in 1..Len(segment(text)) |-> [text |-> segment(text)[k]]]
  ELSE <<[text |-> text]>>

\* A loop that steps over every other segment.
nextSegmentIndex_skip(i) == i + 2

\* for (let i = 0; ...; i++): the index after the one just processed.
nextSegmentIndex(i) == i + 1

\* emit('renderStreamReady', s): the event, and the synchronous start of the
\* adapter's handleRenderStream listener, which marks the id as processed.
emitRenderStreamReady(s) ==
  /\ ready' = Append(ready, s.streamId)
  /\ processedStreamIds' =
       IF hasListeners THEN processedStreamIds \cup {s.streamId}
       ELSE processedStreamIds

\* Calls suspended on an already-resolved promise: their continuation is a
\* pending microtask.
MicrotaskPending ==
  \E c \in CallIds :
     \/ calls[c].pc \in {"segmentText", "generate", "triggered"}
     \/ calls[c].via = "adapter" /\ calls[c].pc \in {"resolved", "rejected"}
        /\ ~calls[c].fin

\* Synchronous start of processAIResponse(text): up to `await segmentText`.
StartProcessing(c, text, via) ==
  /\ setState(PROCESSING)
  /\ calls' = [calls EXCEPT ![c] = [@ EXCEPT !.pc = "segmentText", !.via = via,
                                      !.segments = segmentText(text)]]

\* A new invocation: the controller is still in use (destroy() ends its
\* life: "no further calls are valid"), and invocations are numbered in the
\* order they are made.
CanInvoke(c) ==
  /\ ~destroyed
  /\ calls[c].pc = "new"
  /\ \A d \in CallIds : d < c => calls[d].pc # "new"

\* controller.processAIResponse(text) called directly.
ProcessAIResponse(c, text) ==
  /\ CanInvoke(c)
  /\ StartProcessing(c, text, "direct")
  /\ UNCHANGED <<history, config, modules, hasListeners, destroyed, timers,
                 nextId, isProcessing, processedStreamIds, ready, errors,
                 appendLog, clearedAt, origin, timerFiredIn>>
  /\ UNCHANGED componentVars

\* An adapter without the isProcessing guard.
HandleAIResponse_noGuard(c, text) ==
  /\ CanInvoke(c)
  /\ isProcessing' = TRUE
  /\ StartProcessing(c, text, "adapter")
  /\ UNCHANGED <<history, config, modules, hasListeners, destroyed, timers,
                 nextId, processedStreamIds, ready, errors, appendLog,
                 clearedAt, origin, timerFiredIn>>
  /\ UNCHANGED componentVars

\* adapter.handleAIResponse(text): dropped while isProcessing, else marks
\* itself busy and calls the controller.
HandleAIResponse(c, text) ==
  /\ CanInvoke(c)
  /\ IF isProcessing
     THEN /\ calls' = [calls EXCEPT ![c] = [@ EXCEPT !.pc = "dropped",
                                              !.via = "adapter", !.fin = TRUE]]
          /\ UNCHANGED <<state, stateChanged, isProcessing, processedStreamIds>>
     ELSE /\ isProcessing' = TRUE
          /\ processedStreamIds' =
               IF Cardinality(processedStreamIds) > processedStreamIdsLimit
               THEN {} ELSE processedStreamIds
          /\ StartProcessing(c, text, "adapter")
  /\ UNCHANGED <<history, config, modules, hasListeners, destroyed, timers,
                 nextId, ready, errors, appendLog, clearedAt, origin,
                 timerFiredIn>>
  /\ UNCHANGED componentVars

\* Head of the for-loop, entered after `await segmentText` and after
\* `await triggerSeamlessTransition`: either the loop is over (state IDLE,
\* the call resolves) or generateRenderStream starts for the next segment.
\* Without a generation module the default stream is built on the spot.
LoopStep(c) ==
  /\ calls[c].pc \in {"segmentText", "triggered"}
  /\ LET i == IF calls[c].pc = "segmentText" THEN 1
              ELSE nextSegmentIndex(calls[c].i)
     IN  IF i > Len(calls[c].segments)
         THEN /\ setState(IDLE)
              /\ calls' = [calls EXCEPT ![c] = [@ EXCEPT !.pc = "resolved",
                                                       !.i = i]]
              /\ UNCHANGED <<nextId, origin>>
         ELSE IF "generation" \in modules
         THEN /\ calls' = [calls EXCEPT ![c] = [@ EXCEPT !.pc = "generate",
                                                  !.i = i, !.cur = NoStream]]
              /\ UNCHANGED <<state, stateChanged, nextId, origin>>
         ELSE /\ calls' = [calls EXCEPT ![c] =
                   [@ EXCEPT !.pc = "generate", !.i = i,
                             !.cur = [streamId |-> generateStreamId(nextId),
                                      text |-> calls[c].segments[i].text]]]
              /\ nextId' = nextId + 1
              /\ origin' = origin @@
                   (generateStreamId(nextId) :> [call |-> c, idx |-> i])
              /\ UNCHANGED <<state, stateChanged>>
  /\ UNCHANGED <<history, config, modules, hasListeners, destroyed, timers,
                 isProcessing, processedStreamIds, ready, errors, appendLog,
                 clearedAt, timerFiredIn>>
  /\ UNCHANGED componentVars

\* A triggerSeamlessTransition that does not look at the config.
transitionAwaited_ignoresConfig == "transition" \in modules

\* triggerSeamlessTransition: which way it goes for the current config and
\* modules: emit at once, or enter TRANSITIONING and await the module.
transitionAwaited ==
  config.enableSeamlessTransition /\ "transition" \in modules

\* Continuation of `await generateRenderStream`: the generated stream is
\* appended to the history and triggerSeamlessTransition runs up to its
\* first suspension.
Generated(c) ==
  /\ calls[c].pc = "generate"
  /\ LET fresh == calls[c].cur = NoStream
         s == IF fresh
              THEN [streamId |-> generateStreamId(nextId),
                    text |-> calls[c].segments[calls[c].i].text]
              ELSE calls[c].cur
     IN  /\ nextId' = IF fresh THEN nextId + 1 ELSE nextId
         /\ origin' = IF fresh
                      THEN origin @@ (generateStreamId(nextId) :>
                                        [call |-> c, idx |-> calls[c].i])
                      ELSE origin
         /\ history' = addToHistory(history, s)
         /\ appendLog' = Append(appendLog, s.streamId)
         /\ IF transitionAwaited
            THEN /\ setState(TRANSITIONING)
                 /\ calls' = [calls EXCEPT ![c] =
                                [@ EXCEPT !.pc = "transition", !.cur = s]]
                 /\ UNCHANGED <<ready, processedStreamIds>>
            ELSE /\ emitRenderStreamReady(s)
                 /\ calls' = [calls EXCEPT ![c] =
                                [@ EXCEPT !.pc = "triggered", !.cur = s]]
                 /\ UNCHANGED <<state, stateChanged>>
  /\ UNCHANGED <<config, modules, hasListeners, destroyed, timers,
                 isProcessing, errors, clearedAt, timerFiredIn>>
  /\ UNCHANGED componentVars

\* A continuation that emits without setState(RENDERING).
TransitionDone_noRendering(c) ==
  /\ calls[c].pc = "transition"
  /\ emitRenderStreamReady(calls[c].cur)
  /\ calls' = [calls EXCEPT ![c] = [@ EXCEPT !.pc = "triggered"]]
  /\ UNCHANGED <<state, stateChanged, history, config, modules, hasListeners,
                 destroyed, timers, nextId, isProcessing, errors, appendLog,
                 clearedAt, origin, timerFiredIn>>
  /\ UNCHANGED componentVars

\* transitionModule.transition resolved: RENDERING, then the event.
TransitionDone(c) ==
  /\ calls[c].pc = "transition"
  /\ setState(RENDERING)
  /\ emitRenderStreamReady(calls[c].cur)
  /\ calls' = [calls EXCEPT ![c] = [@ EXCEPT !.pc = "triggered"]]
  /\ UNCHANGED <<history, config, modules, hasListeners, destroyed, timers,
                 nextId, isProcessing, errors, appendLog, clearedAt, origin,
                 timerFiredIn>>
  /\ UNCHANGED componentVars

\* The error a failing sub-transition throws while call c transitions its
\* current stream (`of` only tells the occurrences apart).
TransitionError(c) == [name |-> "TransitionError", of |-> calls[c].cur.streamId]
\* What EventEmitter.emit('error', ...) throws when no 'error' listener is
\* attached.
UnhandledError == [name |-> "UnhandledError", of |-> ""]

\* An 'error' event whose context is the id of the failing stream.
errorEvent_streamId(c) ==
  [error |-> TransitionError(c), context |-> calls[c].cur.streamId]

\* emit('error', { error, context: 'processAIResponse' }).
errorEvent(c) ==
  [error |-> TransitionError(c), context |-> "processAIResponse"]

\* A catch block that raises a new error instead of the one it caught.
thrownToCaller_wrapped(err) == [name |-> "Error", of |-> ""]

\* `throw error` at the end of the catch block.
thrownToCaller(err) == err

\* A catch block that schedules no recovery timer.
scheduleRecovery_none(ts, c) == ts

\* setTimeout(..., 5000) in the catch block: one more pending timer.
scheduleRecovery(ts, c) == ts \cup {c}

\* A failure path that still announces the stream (emit in a `finally`).
TransitionFail_emitsReady(c) ==
  /\ calls[c].pc = "transition"
  /\ setState(ERROR)
  /\ emitRenderStreamReady(calls[c].cur)
  /\ errors' = IF hasListeners THEN Append(errors, errorEvent(c)) ELSE errors
  /\ timers' = IF hasListeners THEN scheduleRecovery(timers, c) ELSE timers
  /\ calls' = [calls EXCEPT ![c] =
                 [@ EXCEPT !.pc = "rejected",
                           !.error = IF hasListeners
                                     THEN thrownToCaller(TransitionError(c))
                                     ELSE UnhandledError]]
  /\ UNCHANGED <<history, config, modules, hasListeners, destroyed, nextId,
                 isProcessing, appendLog, clearedAt, origin, timerFiredIn>>
  /\ UNCHANGED componentVars

\* transitionModule.transition rejected: the catch block of
\* processAIResponse.  setState(ERROR); emit('error', {error, context});
\* schedule the recovery timer; rethrow.  With no 'error' listener attached
\* (after destroy) emit itself throws, so no timer is scheduled and the
\* caller gets the emitter's error.
TransitionFail(c) ==
  /\ calls[c].pc = "transition"
  /\ setState(ERROR)
  /\ IF hasListeners
     THEN /\ errors' = Append(errors, errorEvent(c))
          /\ timers' = scheduleRecovery(timers, c)
          /\ calls' = [calls EXCEPT ![c] =
                         [@ EXCEPT !.pc = "rejected",
                                   !.error = thrownToCaller(TransitionError(c))]]
     ELSE /\ calls' = [calls EXCEPT ![c] =
                         [@ EXCEPT !.pc = "rejected",
                                   !.error = UnhandledError]]
          /\ UNCHANGED <<errors, timers>>
  /\ UNCHANGED <<history, config, modules, hasListeners, destroyed, nextId,
                 isProcessing, processedStreamIds, ready, appendLog,
                 clearedAt, origin, timerFiredIn>>
  /\ UNCHANGED componentVars

\* A timer callback that resets whatever state it finds.
timerResets_always(s) == TRUE

\* The guard of the recovery timer's callback.
timerResets(s) == s = ERROR

\* The setTimeout callback of the catch block.
TimerFire(t) ==
  /\ t \in timers
  /\ ~MicrotaskPending
  /\ timers' = timers \ {t}
  /\ timerFiredIn' = state
  /\ IF timerResets(state) THEN setState(IDLE)
     ELSE UNCHANGED <<state, stateChanged>>
  /\ UNCHANGED <<history, config, modules, hasListeners, destroyed, calls,
                 nextId, isProcessing, processedStreamIds, ready, errors,
                 appendLog, clearedAt, origin>>
  /\ UNCHANGED componentVars

\* The catch/finally of CameraModeAdapter.handleAIResponse, run when the
\* controller's promise settles.
AdapterFinally(c) ==
  /\ calls[c].via = "adapter"
  /\ calls[c].pc \in {"resolved", "rejected"}
  /\ ~calls[c].fin
  /\ isProcessing' = FALSE
  /\ calls' = [calls EXCEPT ![c] = [@ EXCEPT !.fin = TRUE]]
  /\ UNCHANGED <<state, stateChanged, history, config, modules, hasListeners,
                 destroyed, timers, nextId, processedStreamIds, ready, errors,
                 appendLog, clearedAt, origin, timerFiredIn>>
  /\ UNCHANGED componentVars

\* updateConfig(newConfig): this.config = {...this.config, ...newConfig}.
PartialConfigs ==
  [enableSeamlessTransition : BOOLEAN] \cup [enableSmartSegmentation : BOOLEAN]

UpdateConfig(newConfig) ==
  /\ ~destroyed
  /\ config' = [k \in DOMAIN config |->
                  IF k \in DOMAIN newConfig THEN newConfig[k] ELSE config[k]]
  /\ UNCHANGED <<state, stateChanged, history, modules, hasListeners,
                 destroyed, calls, timers, nextId, isProcessing,
                 processedStreamIds, ready, errors, appendLog, clearedAt,
                 origin, timerFiredIn>>
  /\ UNCHANGED componentVars

ClearHistory ==
  /\ ~destroyed
  /\ history' = clearedHistory
  /\ clearedAt' = Len(appendLog)
  /\ UNCHANGED <<state, stateChanged, config, modules, hasListeners,
                 destroyed, calls, timers, nextId, isProcessing,
                 processedStreamIds, ready, errors, appendLog, origin,
                 timerFiredIn>>
  /\ UNCHANGED componentVars

\* destroy(): removeAllListeners, modules.clear, clearHistory.
Destroy ==
  /\ ~destroyed
  /\ destroyed' = TRUE
  /\ hasListeners' = FALSE
  /\ modules' = {}
  /\ history' = clearedHistory
  /\ clearedAt' = Len(appendLog)
  /\ UNCHANGED <<state, stateChanged, config, calls, timers, nextId,
                 isProcessing, processedStreamIds, ready, errors, appendLog,
                 origin, timerFiredIn>>
  /\ UNCHANGED componentVars

Next ==
  \/ \E c \in CallIds, text \in Texts : ProcessAIResponse(c, text)
  \/ \E c \in CallIds, text \in Texts : HandleAIResponse(c, text)
  \/ \E c \in CallIds : LoopStep(c)
  \/ \E c \in CallIds : Generated(c)
  \/ \E c \in CallIds : TransitionDone(c)
  \/ \E c \in CallIds : TransitionFail(c)
  \/ \E c \in CallIds : AdapterFinally(c)
  \/ \E t \in CallIds : TimerFire(t)
  \/ \E newConfig \in PartialConfigs : UpdateConfig(newConfig)
  \/ ClearHistory
  \/ Destroy

Spec == Init /\ [][Next]_vars


\* Scheduling: the event loop runs every pending continuation and every due
\* timer; a transition that was started settles (resolves or rejects).
\* Nothing obliges the environment to submit, reconfigure or destroy.
FairSpec ==
  /\ Spec
  /\ WF_vars(\E t \in CallIds : TimerFire(t))
  /\ \A c \in CallIds :
        /\ WF_vars(LoopStep(c))
        /\ WF_vars(Generated(c))
        /\ WF_vars(TransitionDone(c) \/ TransitionFail(c))
        /\ WF_vars(AdapterFinally(c))

\* ----------------------------------------------------- TransitionModule.ts
\* The module is driven here on its own: transition(renderStream, history)
\* is called either the way processAIResponse calls it (addToHistory first,
\* then transition with this.history) or directly with any history.
\* ASCII stand-ins: "smart_camera" for the camera mode of the factory
\* configs, "undefined" for an absent scene or background.
Channels == {"expression", "motion", "camera", "scene", "background"}

\* TransitionModule config as VirtualHumanFactory.createController sets it.
enableSmoothTransition == TRUE
enableCrossFade == TRUE

\* The channel values of render streams: what GenerationModule.generate
\* yields for a neutral and for a happy segment and for a text naming the
\* office, and the controller's default stream (no scene, no background).
ChannelStreams ==
  { [expression |-> "neutral", motion |-> <<"idle">>, camera |-> "smart_camera",
     scene |-> "default", background |-> "neutral_bg"],
    [expression |-> "smile", motion |-> <<"wave">>, camera |-> "smart_camera",
     scene |-> "default", background |-> "bright_bg"],
    [expression |-> "neutral", motion |-> <<"idle">>, camera |-> "smart_camera",
     scene |-> "office", background |-> "neutral_bg"],
    [expression |-> "neutral", motion |-> <<"idle">>, camera |-> "smart_camera",
     scene |-> "undefined", background |-> "undefined"] }

\* Stands for "no stream" where a stream record is expected.
NoChannels == [expression |-> "", motion |-> <<>>, camera |-> "",
               scene |-> "", background |-> ""]

\* The histories a direct caller passes: empty, or holding one stream.
DirectHistories ==
  {clearedHistory} \cup
  {[streams |-> <<s>>, currentIndex |-> 0] : s \in ChannelStreams}

\* analyzeTransitionNeeds: the channels marked changed.  lastStream is the
\* last entry of the history passed in; without one every channel is
\* marked, else those whose value differs from lastStream's.
analyzeTransitionNeeds(renderStream, h) ==
  IF h.streams = <<>> THEN Channels
  ELSE LET lastStream == h.streams[Len(h.streams)]
       IN  {ch \in Channels : lastStream[ch] # renderStream[ch]}

\* `if (!expression) return;` and its like: a sub-transition whose value is
\* absent (undefined, or an empty motion list) returns at once.
hasValue(renderStream, ch) ==
  IF ch = "motion" THEN Len(renderStream[ch]) > 0
  ELSE renderStream[ch] # "undefined"

\* Sub-transitions started one after the other: only one of them is started
\* by the time performSmoothTransition suspends.
startedBeforeAwait_one(renderStream, needs) ==
  LET all == {ch \in needs : hasValue(renderStream, ch)}
  IN  IF all = {} THEN {} ELSE {CHOOSE ch \in all : TRUE}

\* performSmoothTransition up to `await Promise.all`: every marked channel's
\* transitionX(...) is called in turn and each runs to its own
\* `await this.delay(...)`, so all that have a value are under way together.
startedBeforeAwait(renderStream, needs) ==
  {ch \in needs : hasValue(renderStream, ch)}

\* performCrossFade awaits crossFadeBackground only when the scene or the
\* background is marked and one of them has a value.
crossFadeAwaited(renderStream, needs) ==
  /\ enableCrossFade
  /\ needs \cap {"scene", "background"} # {}
  /\ hasValue(renderStream, "scene") \/ hasValue(renderStream, "background")

TmIdle == [pc |-> "idle", byController |-> FALSE, history |-> clearedHistory,
           stream |-> NoChannels, prev |-> NoChannels, needs |-> {},
           running |-> {}, applied |-> {}, crossFaded |-> FALSE,
           finalised |-> FALSE, error |-> "none"]

TmSettled == {"idle", "resolved", "rejected"}

\* transition(renderStream, h) up to its first suspension: the needs are
\* analysed and, when smooth transition is on, the sub-transitions started.
StartTransition(renderStream, h, prev, byController) ==
  LET needs == analyzeTransitionNeeds(renderStream, h)
      started == IF enableSmoothTransition
                 THEN startedBeforeAwait(renderStream, needs) ELSE {}
  IN  tm' = [pc |-> "smooth", byController |-> byController, history |-> h,
             stream |-> renderStream, prev |-> prev, needs |-> needs,
             running |-> started, applied |-> {}, crossFaded |-> FALSE,
             finalised |-> FALSE, error |-> "none"]

\* The last entry of a history, NoChannels when it has none.
lastOf(h) == IF h.streams = <<>> THEN NoChannels ELSE h.streams[Len(h.streams)]

\* processAIResponse, lines 291-294: this.addToHistory(renderStream), then
\* triggerSeamlessTransition passes this.history to transition().
ControllerTransition(renderStream) ==
  /\ tm.pc \in TmSettled
  /\ tm.byController \/ tm.pc = "idle"
  /\ StartTransition(renderStream, addToHistory(tm.history, renderStream),
                     lastOf(tm.history), TRUE)
  /\ UNCHANGED <<hs, sg, si, sm, gm, sp>>
  /\ UNCHANGED controllerVars

\* transition(renderStream, h) called directly.
ModuleTransition(renderStream, h) ==
  /\ tm.pc \in TmSettled
  /\ ~tm.byController
  /\ StartTransition(renderStream, h, lastOf(h), FALSE)
  /\ UNCHANGED <<hs, sg, si, sm, gm, sp>>
  /\ UNCHANGED controllerVars

\* The delay of one sub-transition elapses: its channel is applied.
SubTransitionDone(ch) ==
  /\ ch \in tm.running
  /\ tm' = [tm EXCEPT !.running = @ \ {ch}, !.applied = @ \cup {ch}]
  /\ UNCHANGED <<hs, sg, si, sm, gm, sp>>
  /\ UNCHANGED controllerVars

\* A failure that undoes the channels already applied.
SubTransitionFail_rollback(ch) ==
  /\ ch \in tm.running
  /\ tm' = [tm EXCEPT !.running = @ \ {ch}, !.applied = {},
                      !.pc = IF tm.pc = "smooth" THEN "rejected" ELSE @,
                      !.error = IF tm.pc = "smooth" THEN ch ELSE @]
  /\ UNCHANGED <<hs, sg, si, sm, gm, sp>>
  /\ UNCHANGED controllerVars

\* One sub-transition throws (the place where the viewer is to be driven).
\* Promise.all rejects on the first rejection: performSmoothTransition and
\* then transition() (catch, log, rethrow) reject with that error.  The
\* other sub-transitions are not cancelled, and nothing is undone.
SubTransitionFail(ch) ==
  /\ ch \in tm.running
  /\ tm' = [tm EXCEPT !.running = @ \ {ch},
                      !.pc = IF tm.pc = "smooth" THEN "rejected" ELSE @,
                      !.error = IF tm.pc = "smooth" THEN ch ELSE @]
  /\ UNCHANGED <<hs, sg, si, sm, gm, sp>>
  /\ UNCHANGED controllerVars

\* Promise.all resolved: performCrossFade, then applyFinalState, each up to
\* its delay.
SmoothDone ==
  /\ tm.pc = "smooth"
  /\ tm.running = {}
  /\ tm' = [tm EXCEPT !.pc = IF crossFadeAwaited(tm.stream, tm.needs)
                             THEN "crossFade" ELSE "final"]
  /\ UNCHANGED <<hs, sg, si, sm, gm, sp>>
  /\ UNCHANGED controllerVars

CrossFadeDone ==
  /\ tm.pc = "crossFade"
  /\ tm' = [tm EXCEPT !.pc = "final", !.crossFaded = TRUE]
  /\ UNCHANGED <<hs, sg, si, sm, gm, sp>>
  /\ UNCHANGED controllerVars

\* ensureFinalState's delay elapses: transition() resolves.
FinalDone ==
  /\ tm.pc = "final"
  /\ tm' = [tm EXCEPT !.pc = "resolved", !.finalised = TRUE]
  /\ UNCHANGED <<hs, sg, si, sm, gm, sp>>
  /\ UNCHANGED controllerVars

TransitionInit ==
  /\ ControllerInit
  /\ tm \in {TmIdle, [TmIdle EXCEPT !.byController = TRUE]}
  /\ hs = <<>>
  /\ sg = <<>>
  /\ si = <<>>
  /\ sm = <<>>
  /\ gm = <<>>
  /\ sp = <<>>

TransitionNext ==
  \/ \E s \in ChannelStreams : ControllerTransition(s)
  \/ \E s \in ChannelStreams, h \in DirectHistories : ModuleTransition(s, h)
  \/ \E ch \in Channels : SubTransitionDone(ch)
  \/ \E ch \in Channels : SubTransitionFail(ch)
  \/ SmoothDone
  \/ CrossFadeDone
  \/ FinalDone

TransitionSpec == TransitionInit /\ [][TransitionNext]_vars

\* ------------------------------------------- the history object and its views
\* JavaScript objects and arrays are shared by reference.  hs.arrays is the
\* heap of stream arrays (two suffice: an array nothing refers to any more
\* is reused), hs.own is this.history, hs.view is what a caller was handed:
\* kind "copy" for the object getHistory() returned ({...this.history}: a
\* new object holding the same array and a copy of the cursor), kind "same"
\* for this.history itself as passed to generate() and transition().
ArrayIds == {"a1", "a2"}

HsInit ==
  [arrays |-> [a \in ArrayIds |-> <<>>],
   own |-> [streams |-> "a1", currentIndex |-> -1],
   view |-> [kind |-> "none", streams |-> "a1", currentIndex |-> -1],
   op |-> "none", pushes |-> 0]

\* What a reference to a history object shows: the entries of its array and
\* its cursor.
Deref(h) == [streams |-> hs.arrays[h.streams], currentIndex |-> h.currentIndex]

\* The object behind the view: this.history itself, or the returned copy.
viewObject == IF hs.view.kind = "same" THEN hs.own ELSE hs.view

\* getHistory: { ...this.history }.  The spread copies the fields, so the
\* result holds the very array this.history.streams refers to.
getHistory ==
  [kind |-> "copy", streams |-> hs.own.streams,
   currentIndex |-> hs.own.currentIndex]

\* The array this.history.streams does not refer to.
FreeArray == CHOOSE a \in ArrayIds : a # hs.own.streams

\* A caller obtains the history through getHistory() (the array of a view
\* given up is garbage).
GetHistory ==
  /\ hs' = [hs EXCEPT !.arrays = [a \in ArrayIds |->
                                    IF a = hs.own.streams THEN hs.arrays[a]
                                    ELSE <<>>],
                      !.view = getHistory, !.op = "getHistory"]
  /\ UNCHANGED <<tm, sg, si, sm, gm, sp>>
  /\ UNCHANGED controllerVars

\* generateRenderStream / triggerSeamlessTransition hand this.history itself
\* to the module.
PassToModule ==
  /\ hs' = [hs EXCEPT !.arrays = [a \in ArrayIds |->
                                    IF a = hs.own.streams THEN hs.arrays[a]
                                    ELSE <<>>],
                      !.view = [kind |-> "same", streams |-> hs.own.streams,
                                currentIndex |-> hs.own.currentIndex],
                      !.op = "passToModule"]
  /\ UNCHANGED <<tm, sg, si, sm, gm, sp>>
  /\ UNCHANGED controllerVars

\* The controller appends a stream: push (and shift) on the array in place,
\* the cursor written to this.history.
HsAddToHistory ==
  /\ hs.pushes < MaxPushes
  /\ LET stream == [streamId |-> generateStreamId(hs.pushes + 1), text |-> <<>>]
         h == addToHistory(Deref(hs.own), stream)
     IN  hs' = [hs EXCEPT !.arrays[hs.own.streams] = h.streams,
                          !.own.currentIndex = h.currentIndex,
                          !.op = "addToHistory",
                          !.pushes = @ + 1]
  /\ UNCHANGED <<tm, sg, si, sm, gm, sp>>
  /\ UNCHANGED controllerVars

\* clearHistory: this.history.streams = [] (a new array), cursor -1.
HsClearHistory ==
  /\ LET new == IF viewObject.streams = hs.own.streams /\ hs.view.kind = "copy"
                THEN FreeArray ELSE hs.own.streams
     IN  hs' = [hs EXCEPT !.arrays[new] = clearedHistory.streams,
                          !.own = [streams |-> new,
                                   currentIndex |-> clearedHistory.currentIndex],
                          !.op = "clearHistory"]
  /\ UNCHANGED <<tm, sg, si, sm, gm, sp>>
  /\ UNCHANGED controllerVars

\* The holder of the view pushes a stream of its own onto view.streams.
HolderPush ==
  /\ hs.view.kind # "none"
  /\ hs.pushes < MaxPushes
  /\ hs' = [hs EXCEPT !.arrays[viewObject.streams] =
                         Append(@, [streamId |-> "foreign", text |-> <<>>]),
                      !.op = "holderPush",
                      !.pushes = @ + 1]
  /\ UNCHANGED <<tm, sg, si, sm, gm, sp>>
  /\ UNCHANGED controllerVars

HistoryInit ==
  /\ ControllerInit
  /\ hs = HsInit
  /\ tm = <<>>
  /\ sg = <<>>
  /\ si = <<>>
  /\ sm = <<>>
  /\ gm = <<>>
  /\ sp = <<>>

HistoryNext ==
  \/ GetHistory
  \/ PassToModule
  \/ HsAddToHistory
  \/ HsClearHistory
  \/ HolderPush

HistorySpec == HistoryInit /\ [][HistoryNext]_vars

\* ------------------------------------------------- SmartSentenceSegmenter
\* The streaming segmenter of the integration component.  Its regular
\* expression /^(.+[\n~. ! . ?]|.{10,}[,])/ is written here with the
\* stand-ins of the header ("." for the ideographic full stop and the
\* full-width full stop, "," for the comma and the ideographic comma).
sentenceEnds == {"\n", "~", ".", "!", "?"}
clauseEnds == {","}

\* .{10,}: the least number of characters before a clause end.
minClauseLength == 10

\* What the streamed text is made of, chunk by chunk.
Chunks ==
  { <<"a">>, <<"a", ".">>, <<" ">>, <<"\n">>, <<",">>, <<"!", " ", "\n", "b">>,
    <<"a", "a", "a", "a", "a", "a", "a", "a", "a", "a">> }

Max(S) == CHOOSE x \in S : \A y \in S : y <= x

\* Length of the match of the regular expression at the start of buf, 0
\* when it does not match.  "." matches any character but the line feed;
\* both alternatives are greedy, and the second is tried only when the
\* first fails.
sentenceMatchLength(buf) ==
  LET n == RunLength(buf, {"\n"}, FALSE)
      first == {k \in 1..n : k + 1 <= Len(buf) /\ buf[k + 1] \in sentenceEnds}
      second == {k \in minClauseLength..n :
                   k + 1 <= Len(buf) /\ buf[k + 1] \in clauseEnds}
  IN  IF first # {} THEN Max(first) + 1
      ELSE IF second # {} THEN Max(second) + 1
      ELSE 0

\* extractCompleteSentences: at most one sentence, cut off the buffer; the
\* rest of the buffer loses its leading white space.
extractCompleteSentences(buf) ==
  LET m == sentenceMatchLength(buf)
  IN  IF m > 0
      THEN [sentences |-> <<SubSeq(buf, 1, m)>>,
            sentenceBuffer |-> trimStart(SubSeq(buf, m + 1, Len(buf)))]
      ELSE [sentences |-> <<>>, sentenceBuffer |-> buf]

\* A segmenter that puts the whole content into the buffer again.
newContent_whole(content, last) == content

\* content.slice(this.lastProcessedContent.length)
newContent(content, last) == SubSeq(content, Len(last) + 1, Len(content))

\* A segmenter without the branch for content that came back shorter.
processNewContent_noReset(g, content) ==
  IF content = g.lastProcessedContent
  THEN [sentences |-> <<>>, sentenceBuffer |-> g.sentenceBuffer,
        lastProcessedContent |-> g.lastProcessedContent]
  ELSE LET x == extractCompleteSentences(
                  g.sentenceBuffer \o newContent(content, g.lastProcessedContent))
       IN  [sentences |-> x.sentences, sentenceBuffer |-> x.sentenceBuffer,
            lastProcessedContent |-> content]

\* processNewContent(content) on a segmenter in state g: the sentences
\* returned and the fields afterwards.
processNewContent(g, content) ==
  IF content = g.lastProcessedContent
  THEN [sentences |-> <<>>, sentenceBuffer |-> g.sentenceBuffer,
        lastProcessedContent |-> g.lastProcessedContent]
  ELSE IF Len(content) < Len(g.lastProcessedContent)
  THEN [sentences |-> <<>>, sentenceBuffer |-> <<>>,
        lastProcessedContent |-> content]
  ELSE IF Len(newContent(content, g.lastProcessedContent)) = 0
  THEN [sentences |-> <<>>, sentenceBuffer |-> g.sentenceBuffer,
        lastProcessedContent |-> g.lastProcessedContent]
  ELSE LET x == extractCompleteSentences(
                  g.sentenceBuffer \o newContent(content, g.lastProcessedContent))
       IN  [sentences |-> x.sentences, sentenceBuffer |-> x.sentenceBuffer,
            lastProcessedContent |-> content]

\* returned: every sentence returned so far; result: the result of the
\* latest call; before, prev: the buffer and the content that call found;
\* appendOnly: so far every call passed the previous content or an
\* extension of it.
SgInit ==
  [sentenceBuffer |-> <<>>, lastProcessedContent |-> <<>>, returned |-> <<>>,
   result |-> <<>>, before |-> <<>>, prev |-> <<>>, n |-> 0,
   appendOnly |-> TRUE, op |-> "none"]

Call(content, op, appendOnly) ==
  LET r == processNewContent(sg, content)
  IN  sg' = [sentenceBuffer |-> r.sentenceBuffer,
             lastProcessedContent |-> r.lastProcessedContent,
             returned |-> sg.returned \o r.sentences,
             result |-> r.sentences, before |-> sg.sentenceBuffer,
             prev |-> sg.lastProcessedContent,
             n |-> sg.n + 1, appendOnly |-> sg.appendOnly /\ appendOnly,
             op |-> op]

\* The stream delivers the text so far with one more chunk.
Grow(chunk) ==
  /\ sg.n < MaxChunks
  /\ Call(sg.lastProcessedContent \o chunk, "grow", TRUE)
  /\ UNCHANGED <<tm, hs, si, sm, gm, sp>>
  /\ UNCHANGED controllerVars

\* The same content is delivered again.
Repeat ==
  /\ sg.n < MaxChunks
  /\ Call(sg.lastProcessedContent, "repeat", TRUE)
  /\ UNCHANGED <<tm, hs, si, sm, gm, sp>>
  /\ UNCHANGED controllerVars

\* The content comes back shorter (its last character deleted).
Shorten ==
  /\ sg.n < MaxChunks
  /\ sg.lastProcessedContent # <<>>
  /\ Call(SubSeq(sg.lastProcessedContent, 1, Len(sg.lastProcessedContent) - 1),
          "shorten", FALSE)
  /\ UNCHANGED <<tm, hs, si, sm, gm, sp>>
  /\ UNCHANGED controllerVars

SegmenterInit ==
  /\ ControllerInit
  /\ sg = SgInit
  /\ tm = <<>>
  /\ hs = <<>>
  /\ si = <<>>
  /\ sm = <<>>
  /\ gm = <<>>
  /\ sp = <<>>

SegmenterNext ==
  \/ \E chunk \in Chunks : Grow(chunk)
  \/ Repeat
  \/ Shorten

SegmenterSpec == SegmenterInit /\ [][SegmenterNext]_vars

\* ------------------------------------------- SegmentationModule on its own
\* A text is put together piece by piece and handed to segment(text).

\* Number of pieces a text is made of.
MaxPieces == 4

\* Forty characters without any mark: three of them exceed
\* maxSegmentLength.
LongRun == [k \in 1..40 |-> "a"]

TextPieces ==
  { LongRun, <<"a", "a", "a", "a", "a", "a", "a", "a", "a", ",">>,
    <<"a", ",">>, <<".">>, <<"!", " ">>, <<"\n">>, <<"b", ";">>,
    <<"k", "x">>, <<"s", "q">>,
    <<"k", "x", "a", "a", "a", "a", "a", "a", "a", ",">> }

\* emotions: for each segment, its emotion and the sentence it is part of.
SmInit ==
  [text |-> <<>>, segments |-> <<>>, emotions |-> <<>>, done |-> FALSE, n |-> 0]

\* The caller extends the text it is going to submit.
AppendPiece(piece) ==
  /\ ~sm.done
  /\ sm.n < MaxPieces
  /\ sm' = [sm EXCEPT !.text = @ \o piece, !.n = @ + 1]
  /\ UNCHANGED <<tm, hs, sg, si, gm, sp>>
  /\ UNCHANGED controllerVars

\* segment(text) is called and returns.
Segment ==
  /\ ~sm.done
  /\ sm' = [sm EXCEPT !.segments = segment(sm.text),
                      !.emotions = segmentEmotions(sm.text), !.done = TRUE]
  /\ UNCHANGED <<tm, hs, sg, si, gm, sp>>
  /\ UNCHANGED controllerVars

SegmentationInit ==
  /\ ControllerInit
  /\ sm = SmInit
  /\ tm = <<>>
  /\ hs = <<>>
  /\ sg = <<>>
  /\ si = <<>>
  /\ gm = <<>>
  /\ sp = <<>>

SegmentationNext ==
  \/ \E piece \in TextPieces : AppendPiece(piece)
  \/ Segment

SegmentationSpec == SegmentationInit /\ [][SegmentationNext]_vars

\* ------------------------------------------------------- GenerationModule
\* generate(segment, history) on its own.  ASCII stand-ins for the camera
\* modes: "none", "smart_camera", "track_face", "track_back" and
\* "track_front" for the modes the source calls empty, smart camera,
\* tracking close-up, tracking from behind and tracking from the front.
\* A segment is [emotion, emphasis, keyword]: keyword is the scene keyword
\* that segment.text includes ("none": it includes none of them), emotion
\* "undefined" is a segment without emotion.

\* Number of entries of the history handed to generate.
MaxGenHistory == 2

CameraModes ==
  {"none", "smart_camera", "track_face", "track_back", "track_front"}

Emotions ==
  {"happy", "angry", "sad", "cry", "surprised", "fear", "disgust", "neutral",
   "undefined"}

Segments == [emotion : Emotions, emphasis : BOOLEAN, keyword : {"none", "office"}]

\* segment.emotion || 'neutral'
emotionOf(seg) == IF seg.emotion = "undefined" THEN "neutral" ELSE seg.emotion

\* config.emotionToExpression
mapEmotionToExpression(emotion) ==
  IF emotion = "happy" THEN "smile" ELSE emotion

\* config.emotionToMotion
emotionToMotion(emotion) ==
  CASE emotion = "happy" -> <<"wave", "dance">>
    [] emotion = "angry" -> <<"fist", "point">>
    [] emotion = "sad" -> <<"head_down", "sigh">>
    [] emotion = "cry" -> <<"cry", "wipe_tears">>
    [] emotion = "surprised" -> <<"jump", "hands_up">>
    [] emotion = "fear" -> <<"shrink", "cover_face">>
    [] emotion = "disgust" -> <<"turn_away", "cover_nose">>
    [] OTHER -> <<"idle", "look_around">>

\* mapEmotionToMotion: pick is the index Math.random() selects.
mapEmotionToMotion(emotion, pick) == <<emotionToMotion(emotion)[pick]>>

\* A module that never looks at the history.
determineCameraMode_noHistory(seg, h, cfg) ==
  IF seg.emphasis THEN "track_face"
  ELSE IF seg.emotion \in {"surprised", "fear"} THEN "track_front"
  ELSE IF seg.emotion \in {"sad", "cry"} THEN "track_back"
  ELSE cfg.defaultCamera

\* A module that looks at the emotion before the emphasis.
determineCameraMode_emotionFirst(seg, h, cfg) ==
  IF seg.emotion \in {"surprised", "fear"} THEN "track_front"
  ELSE IF seg.emotion \in {"sad", "cry"} THEN "track_back"
  ELSE IF seg.emphasis THEN "track_face"
  ELSE IF h # <<>> /\ h[Len(h)].camera # "none" THEN h[Len(h)].camera
  ELSE cfg.defaultCamera

determineCameraMode(seg, h, cfg) ==
  IF seg.emphasis THEN "track_face"
  ELSE IF seg.emotion \in {"surprised", "fear"} THEN "track_front"
  ELSE IF seg.emotion \in {"sad", "cry"} THEN "track_back"
  ELSE IF h # <<>> /\ h[Len(h)].camera # "none" THEN h[Len(h)].camera
  ELSE cfg.defaultCamera

\* The scene of the first of the last five streams that has one.
determineScene(seg, h) ==
  LET recent == {i \in 1..Len(h) : i > Len(h) - 5 /\ h[i].scene # "undefined"}
  IN  IF seg.keyword # "none" THEN seg.keyword
      ELSE IF recent # {} THEN h[Min(recent)].scene
      ELSE "default"

determineBackground(seg) ==
  CASE emotionOf(seg) = "happy" -> "bright_bg"
    [] emotionOf(seg) \in {"sad", "cry"} -> "dark_bg"
    [] emotionOf(seg) = "fear" -> "mysterious_bg"
    [] OTHER -> "neutral_bg"

\* A module whose camera depends on the random pick.
generate_randomCamera(seg, h, cfg, pick) ==
  [expression |-> mapEmotionToExpression(emotionOf(seg)),
   motion |-> mapEmotionToMotion(emotionOf(seg), pick),
   camera |-> IF pick = 1 THEN "track_face" ELSE "track_back",
   scene |-> determineScene(seg, h),
   background |-> determineBackground(seg)]

\* generate(segment, history): the channels of the stream returned (its
\* text is the segment's, its audio is undefined, its id and timestamp
\* are fresh).
generate(seg, h, cfg, pick) ==
  [expression |-> mapEmotionToExpression(emotionOf(seg)),
   motion |-> mapEmotionToMotion(emotionOf(seg), pick),
   camera |-> determineCameraMode(seg, h, cfg),
   scene |-> determineScene(seg, h),
   background |-> determineBackground(seg)]

\* segment: the segment being generated for; results: the streams generate
\* returned for it, each with the history it was given.
GmInit(camera, seg) ==
  [config |-> [defaultCamera |-> camera], history |-> <<>>, segment |-> seg,
   results |-> <<>>]

\* The next segment is taken up.
NextSegment(seg) ==
  /\ gm' = [gm EXCEPT !.segment = seg, !.results = <<>>]
  /\ UNCHANGED <<tm, hs, sg, si, sm, sp>>
  /\ UNCHANGED controllerVars

\* generate is called (again) for the segment with the history as it is.
Generate(pick) ==
  /\ Len(gm.results) < 2
  /\ gm' = [gm EXCEPT !.results =
              Append(@, [stream |-> generate(gm.segment, gm.history, gm.config, pick),
                         given |-> gm.history])]
  /\ UNCHANGED <<tm, hs, sg, si, sm, sp>>
  /\ UNCHANGED controllerVars

\* The stream generated last enters the history, which keeps its latest
\* MaxGenHistory entries.
GmAddToHistory ==
  /\ gm.results # <<>>
  /\ LET stream == gm.results[Len(gm.results)].stream
         h == Append(gm.history, [camera |-> stream.camera, scene |-> stream.scene])
     IN  gm' = [gm EXCEPT !.results = <<>>,
                  !.history = IF Len(h) > MaxGenHistory THEN Tail(h) ELSE h]
  /\ UNCHANGED <<tm, hs, sg, si, sm, sp>>
  /\ UNCHANGED controllerVars

GenerationInit ==
  /\ ControllerInit
  /\ \E camera \in {"smart_camera", "none"}, seg \in Segments :
       gm = GmInit(camera, seg)
  /\ tm = <<>>
  /\ hs = <<>>
  /\ sg = <<>>
  /\ si = <<>>
  /\ sm = <<>>
  /\ sp = <<>>

GenerationNext ==
  \/ \E seg \in Segments : NextSegment(seg)
  \/ \E pick \in 1..2 : Generate(pick)
  \/ GmAddToHistory

GenerationSpec == GenerationInit /\ [][GenerationNext]_vars

\* ------------------------------------------------------ StreamIntegration
\* The streaming path of the chat session: onMessageHandle cuts sentences
\* off the text received so far and hands each to
\* StreamIntegration.handleStreamChunk; onFinish calls handleStreamComplete.
\* processSentences hands the sentences one by one to the adapter's
\* handleAIResponse, which skips a text while the adapter is processing.
\* Whether the caller of onMessageHandle waits for the promise it returns is
\* not in the source: a chunk may arrive while sentences are processed.

\* Number of chunks of one streamed reply.
MaxStreamChunks == 3

StreamChunks == { <<"a">>, <<"b", ".">>, <<".", "!">>, <<"\n", "c", "!">> }

NoTask == [pc |-> "idle", rest |-> <<>>]

\* heldAtEnd: the texts held back (by the session, by the StreamIntegration)
\* when the stream ended.  given: the arguments of handleStreamChunk, in
\* order; passed: the arguments of adapter.handleAIResponse, in order.
SiInit ==
  [receivedMessage |-> <<>>, sentenceBuffer |-> <<>>, isProcessing |-> FALSE,
   adapterBusy |-> FALSE, tasks |-> [chunk |-> NoTask, complete |-> NoTask],
   forwarded |-> <<>>, skipped |-> <<>>, heldAtEnd |-> <<>>,
   given |-> <<>>, passed |-> <<>>, ended |-> FALSE, n |-> 0]

RECURSIVE blankMatches(_)
\* The matches that extractCompleteSentences leaves in the text: those that
\* are blank after trim().
blankMatches(ms) ==
  IF ms = <<>> THEN <<>>
  ELSE (IF trim(Head(ms)) = <<>> THEN Head(ms) ELSE <<>>) \o
       blankMatches(Tail(ms))

\* remainingText of StreamIntegration.extractCompleteSentences: the text
\* without the matches pushed as sentences.
streamRemaining(text) ==
  SubSeq(text, 1, RunLength(text, SentenceBoundary, TRUE)) \o
  blankMatches(sentenceMatches(text))

\* CameraModeAdapter.handleAIResponse(sentence) called by task k, up to
\* its await of controller.processAIResponse.
adapterHandleAIResponse(s, k, sentence) ==
  IF s.adapterBusy
  THEN [s EXCEPT !.skipped = Append(@, sentence), !.tasks[k].pc = "delay",
                 !.passed = Append(@, sentence)]
  ELSE [s EXCEPT !.adapterBusy = TRUE, !.forwarded = Append(@, sentence),
                 !.tasks[k].pc = "adapter", !.passed = Append(@, sentence)]

\* The finally block of processSentences and, for the task started by
\* handleStreamComplete, the statements after its await.
finishTask(s, k) ==
  [s EXCEPT !.tasks[k] = NoTask, !.isProcessing = FALSE,
            !.sentenceBuffer = IF k = "complete" THEN <<>> ELSE @]

RECURSIVE sentenceLoop(_, _)
\* The for-loop of processSentences from its next sentence up to the next
\* await.
sentenceLoop(s, k) ==
  LET rest == s.tasks[k].rest
  IN  IF rest = <<>> THEN finishTask(s, k)
      ELSE IF trim(Head(rest)) = <<>>
      THEN sentenceLoop([s EXCEPT !.tasks[k].rest = Tail(rest)], k)
      ELSE adapterHandleAIResponse([s EXCEPT !.tasks[k].rest = Tail(rest)],
                                   k, Head(rest))

processSentences(s, k, sentences) ==
  sentenceLoop([s EXCEPT !.isProcessing = TRUE,
                         !.tasks[k] = [pc |-> "loop", rest |-> sentences]], k)

\* StreamIntegration.handleStreamChunk(chunk) up to its first await.
handleStreamChunk(s, chunk) ==
  IF s.isProcessing
  THEN [s EXCEPT !.sentenceBuffer = @ \o chunk, !.given = Append(@, chunk)]
  ELSE LET buf == s.sentenceBuffer \o chunk
           s1 == [s EXCEPT !.sentenceBuffer = streamRemaining(buf),
                           !.given = Append(@, chunk)]
       IN  IF splitIntoSentences(buf) # <<>>
           THEN processSentences(s1, "chunk", splitIntoSentences(buf))
           ELSE s1

\* StreamIntegration.handleStreamComplete() up to its first await.
handleStreamComplete(s) ==
  IF Len(s.sentenceBuffer) > 0
  THEN processSentences(s, "complete", <<s.sentenceBuffer>>)
  ELSE [s EXCEPT !.isProcessing = FALSE]

\* onMessageHandle of the session for a text chunk.
OnMessageHandle(chunk) ==
  /\ ~si.ended
  /\ si.n < MaxStreamChunks
  /\ LET received == si.receivedMessage \o chunk
         m == sentenceMatchLength(received)
         sentence == SubSeq(received, 1, m)
         s1 == [si EXCEPT !.n = @ + 1,
                  !.receivedMessage =
                     IF m > 0 THEN trimStart(SubSeq(received, m + 1, Len(received)))
                     ELSE received]
     IN  si' = IF m > 0 /\ trim(sentence) # <<>>
               THEN handleStreamChunk(s1, sentence)
               ELSE s1
  /\ UNCHANGED <<tm, hs, sg, sm, gm, sp>>
  /\ UNCHANGED controllerVars

\* onFinish of the session.
OnFinish ==
  /\ ~si.ended
  /\ si' = handleStreamComplete(
             [si EXCEPT !.ended = TRUE,
                        !.heldAtEnd = <<si.receivedMessage, si.sentenceBuffer>>])
  /\ UNCHANGED <<tm, hs, sg, sm, gm, sp>>
  /\ UNCHANGED controllerVars

\* controller.processAIResponse returns to the adapter, which returns to
\* task k; the task waits for its delay.
AdapterReturns(k) ==
  /\ si.tasks[k].pc = "adapter"
  /\ si' = [si EXCEPT !.adapterBusy = FALSE, !.tasks[k].pc = "delay"]
  /\ UNCHANGED <<tm, hs, sg, sm, gm, sp>>
  /\ UNCHANGED controllerVars

\* controller.processAIResponse throws: the adapter rethrows and the catch
\* of processSentences ends the task.
AdapterThrows(k) ==
  /\ si.tasks[k].pc = "adapter"
  /\ si' = finishTask([si EXCEPT !.adapterBusy = FALSE], k)
  /\ UNCHANGED <<tm, hs, sg, sm, gm, sp>>
  /\ UNCHANGED controllerVars

\* The delay of task k is over: the loop goes on.
DelayDone(k) ==
  /\ si.tasks[k].pc = "delay"
  /\ si' = sentenceLoop(si, k)
  /\ UNCHANGED <<tm, hs, sg, sm, gm, sp>>
  /\ UNCHANGED controllerVars

StreamInit ==
  /\ ControllerInit
  /\ si = SiInit
  /\ tm = <<>>
  /\ hs = <<>>
  /\ sg = <<>>
  /\ sm = <<>>
  /\ gm = <<>>
  /\ sp = <<>>

StreamNext ==
  \/ \E chunk \in StreamChunks : OnMessageHandle(chunk)
  \/ OnFinish
  \/ \E k \in {"chunk", "complete"} : AdapterReturns(k)
  \/ \E k \in {"chunk", "complete"} : AdapterThrows(k)
  \/ \E k \in {"chunk", "complete"} : DelayDone(k)

StreamSpec == StreamInit /\ [][StreamNext]_vars

\* ------------------------------------------- CameraModeAdapter: speech
\* The pipeline driven through the adapter, with the speech playback that
\* its handleRenderStream starts for every stream it handles.  The
\* listener of 'renderStreamReady' calls the async handleRenderStream and
\* drops the promise; handleSpeech awaits speakCharacter inside two
\* try/catch blocks that only log, and its onError callback only logs.

SpeechOutcomes == {"completed", "threw", "onError"}

\* The ids the calls can give to their streams: every text has at most two
\* segments.
StreamIds == {generateStreamId(n) : n \in 1..(2 * MaxCalls)}

\* A listener whose failure gets into the controller.
SpeechEnds_propagates(id, outcome) ==
  /\ id \in processedStreamIds
  /\ id \notin DOMAIN sp
  /\ sp' = (id :> [outcome |-> outcome, at |-> Len(ready)]) @@ sp
  /\ state' = IF outcome = "completed" THEN state ELSE ERROR
  /\ UNCHANGED <<stateChanged, history, config, modules, hasListeners,
                 destroyed, calls, timers, nextId, isProcessing,
                 processedStreamIds, ready, errors, appendLog, clearedAt,
                 origin, timerFiredIn>>
  /\ UNCHANGED <<tm, hs, sg, si, sm, gm>>

\* speakCharacter for stream id settles: it completes, throws (caught by
\* handleSpeech) or reports through onError.  `at` is the number of
\* 'renderStreamReady' events emitted by then.
SpeechEnds(id, outcome) ==
  /\ id \in processedStreamIds
  /\ id \notin DOMAIN sp
  /\ sp' = (id :> [outcome |-> outcome, at |-> Len(ready)]) @@ sp
  /\ UNCHANGED controllerVars
  /\ UNCHANGED <<tm, hs, sg, si, sm, gm>>

AdapterNext ==
  \/ \E c \in CallIds, text \in Texts : HandleAIResponse(c, text)
  \/ \E c \in CallIds : LoopStep(c)
  \/ \E c \in CallIds : Generated(c)
  \/ \E c \in CallIds : TransitionDone(c)
  \/ \E c \in CallIds : TransitionFail(c)
  \/ \E c \in CallIds : AdapterFinally(c)
  \/ \E t \in CallIds : TimerFire(t)
  \/ \E id \in StreamIds, outcome \in SpeechOutcomes : SpeechEnds(id, outcome)

AdapterSpec == Init /\ [][AdapterNext]_vars

\* Scheduling of the adapter run: the event loop runs every pending
\* continuation, and a transition that was started settles.
AdapterFairSpec ==
  /\ AdapterSpec
  /\ \A c \in CallIds :
        /\ WF_vars(LoopStep(c))
        /\ WF_vars(Generated(c))
        /\ WF_vars(TransitionDone(c) \/ TransitionFail(c))
        /\ WF_vars(AdapterFinally(c))

\* ------------------------------------------------------------ properties
InFlightPcs == {"segmentText", "generate", "transition", "triggered"}

\* The ids in log that were generated for call c, and their segment indexes.
IdsOf(c, log) == SelectSeq(log, LAMBDA id : origin[id].call = c)
IdxOf(ids) == [k \in 1..Len(ids) |-> origin[ids[k]].idx]
Range(f) == {f[k] : k \in DOMAIN f}

\* The catch block of processAIResponse runs for call c in this step.
FailureStep(c) ==
  /\ calls[c].pc = "transition"
  /\ calls'[c] # calls[c]
  /\ state' = ERROR

\* C1: a submit invoked while the controller state is not Idle is a no-op:
\* the state is unchanged, no stateChanged event is emitted, and the call
\* does not become an in-flight call (so it appends and emits nothing).
C1_SubmitRejectedUnlessIdle ==
  [][\A c \in CallIds :
       (calls[c].pc = "new" /\ calls'[c].pc # "new" /\ state # IDLE)
         => /\ calls'[c].pc \notin InFlightPcs
            /\ UNCHANGED <<state, stateChanged, history, ready>>]_vars

\* C2: for every call, the streams it appended and the streams it announced
\* are those of segments 1, 2, ... in that order, one per segment; at most
\* one segment is between append and announcement, and only while its
\* transition runs (or after it failed); a resolved call has announced
\* every segment; the stream in hand carries the text of its segment.
C2_SegmentsInOrder ==
  \A c \in CallIds :
    LET a == IdxOf(IdsOf(c, appendLog))
        r == IdxOf(IdsOf(c, ready))
        n == Len(calls[c].segments)
        made == {id \in DOMAIN origin : origin[id].call = c}
    IN  /\ a = [k \in 1..Len(a) |-> k]
        /\ r = [k \in 1..Len(r) |-> k]
        /\ Len(r) <= Len(a) /\ Len(a) <= Len(r) + 1 /\ Len(a) <= n
        /\ Len(a) = Len(r) + 1 => calls[c].pc \in {"transition", "rejected"}
        /\ Cardinality(made) \in {Len(a), Len(a) + 1}
        /\ Cardinality(made) = Len(a) + 1 => calls[c].pc = "generate"
        /\ calls[c].pc = "resolved" => Len(r) = n
        /\ (calls[c].cur # NoStream /\ calls[c].i <= n) =>
             calls[c].cur.text = calls[c].segments[calls[c].i].text

C2_Witness ==
  \E c \in CallIds :
    /\ calls[c].pc = "resolved"
    /\ Len(calls[c].segments) = 2
    /\ Len(IdsOf(c, ready)) = 2
    /\ \E d \in CallIds : d # c /\ Len(IdsOf(d, ready)) > 0

C4_NoReadyAfterFailedTransition ==
  /\ [][\A c \in CallIds :
          (FailureStep(c) /\ state = TRANSITIONING)
            => state' = ERROR /\ ready' = ready]_vars
  /\ [](\A c \in CallIds :
          calls[c].pc = "rejected" => calls[c].cur.streamId \notin Range(ready))

C4_Witness ==
  \E c \in CallIds :
    /\ calls[c].pc = "rejected"
    /\ calls[c].cur.streamId \in Range(appendLog)
    /\ Len(ready) > 0
    /\ state = ERROR

\* C5 as stated: the context of every error event is the streamId of the
\* stream whose transition failed.
C5_ContextCarriesStreamId ==
  \A k \in 1..Len(errors) : errors[k].context = errors[k].error.of

\* C5 as amended: the context of every error event is the fixed label
\* 'processAIResponse', whatever stream failed.
C5_ContextIsOperationName ==
  \A k \in 1..Len(errors) :
    /\ errors[k].context = "processAIResponse"
    /\ errors[k].error.name = "TransitionError"

C5_Witness ==
  /\ Len(errors) > 0
  /\ errors[Len(errors)].error.of \in Range(appendLog)

\* C6: on a controller that has not been destroyed, whenever the state is
\* Error it is eventually Idle (the recovery timer of the failure resets it,
\* unless other work moved the state on first).  After destroy() the
\* controller is torn down and recovery is not expected of it.
C6_ErrorLeadsToIdle ==
  (state = ERROR /\ ~destroyed) ~> (state = IDLE \/ destroyed)

\* A recovery timer found Error and reset it to Idle.
C6_Witness ==
  /\ timerFiredIn = ERROR
  /\ state = IDLE
  /\ \A c \in CallIds : calls[c].pc \notin InFlightPcs

\* C7: a recovery timer that fires when the state is not Error changes
\* neither the state nor the number of stateChanged events, and leaves
\* every call as it was.
C7_LateTimerIsNoOp ==
  [][(timers' # timers /\ timers' \subseteq timers /\ state # ERROR)
       => UNCHANGED <<state, stateChanged, calls, history, ready>>]_vars

C7_Witness ==
  /\ timerFiredIn = TRANSITIONING
  /\ state = TRANSITIONING
  /\ \E c \in CallIds : calls[c].pc = "transition"

\* C8: while the state is Error no submit is accepted, and the state leaves
\* Error only by a recovery timer resetting it to Idle.
C8_ErrorBlocksSubmit ==
  [][state = ERROR
       => /\ \A c \in CallIds :
               calls[c].pc = "new" => calls'[c].pc \notin InFlightPcs
          /\ state' # ERROR => (state' = IDLE /\ timers' # timers)]_vars

\* The streamIds appended since the last clearHistory.
SinceClear == SubSeq(appendLog, clearedAt + 1, Len(appendLog))

\* C9: the history never holds more than maxHistory entries, and they are
\* the most recent appended ones, in append order.
C9_HistoryBounded ==
  LET n == Len(SinceClear)
      k == IF n > maxHistory THEN maxHistory ELSE n
  IN  /\ Len(history.streams) <= maxHistory
      /\ [j \in 1..Len(history.streams) |-> history.streams[j].streamId]
           = SubSeq(SinceClear, n - k + 1, n)

C9_Witness ==
  /\ Len(SinceClear) > maxHistory
  /\ Len(history.streams) = maxHistory

\* C10: the cursor is the index of the last entry, -1 when there is none.
C10_CursorAtLast ==
  /\ history.currentIndex = Len(history.streams) - 1
  /\ history.currentIndex = -1 <=> history.streams = <<>>

C10_Witness ==
  /\ clearedAt > 0
  /\ Len(appendLog) > maxHistory
  /\ history.currentIndex >= 0

\* The sub-transitions transition() has to run for the stream in hand: the
\* marked channels that have a value.
Scheduled ==
  IF enableSmoothTransition
  THEN {ch \in tm.needs : hasValue(tm.stream, ch)} ELSE {}

\* C11: for each instruction the controller hands to the transition
\* module, a channel is marked changed if and only if there was no earlier
\* instruction or the channel's value differs from the earlier instruction's;
\* for the first instruction all five channels are marked.
C11_ChangedIffDiffers ==
  (tm.byController /\ tm.pc # "idle") =>
    \A ch \in Channels :
      ch \in tm.needs <=> (tm.prev = NoChannels \/ tm.prev[ch] # tm.stream[ch])

\* C12: while transition() waits in performSmoothTransition every scheduled
\* sub-transition is under way or done (none is held back until another
\* finishes), and the cross-fade and final-state steps are reached only when
\* every scheduled sub-transition has completed.
C12_FanOutFanIn ==
  /\ tm.pc = "smooth" => tm.running \cup tm.applied = Scheduled
  /\ tm.pc \in {"crossFade", "final", "resolved"}
       => tm.running = {} /\ tm.applied = Scheduled

\* Two sub-transitions still run after a third has completed.
C12_Witness ==
  /\ tm.pc = "smooth"
  /\ Cardinality(tm.running) >= 2
  /\ tm.applied # {}

\* C13: when a sub-transition fails, transition() is rejected with the
\* error of that sub-transition, the channels applied so far stay applied,
\* and neither the cross-fade nor the final-state step runs for that call.
C13_FailureSkipsCommit ==
  /\ [][(tm.pc = "smooth" /\ tm'.pc = "rejected")
          => /\ tm'.error \in tm.running
             /\ tm'.applied = tm.applied
             /\ ~tm'.crossFaded /\ ~tm'.finalised]_vars
  /\ [][(tm.pc = "rejected" /\ tm'.pc = "rejected")
          => /\ tm.applied \subseteq tm'.applied
             /\ tm'.error = tm.error
             /\ ~tm'.crossFaded /\ ~tm'.finalised]_vars
  /\ [][tm.pc = "rejected" => tm'.pc \in {"rejected", "smooth"}]_vars

\* A transition rejected after one channel was applied, another still
\* running.
C13_Witness ==
  /\ tm.pc = "rejected"
  /\ tm.applied # {}
  /\ tm.running # {}

\* C14: a step taken while seamless transition is disabled never hands a
\* stream to the transition module and never makes the state Transitioning;
\* a stream appended in such a step is announced in the same step, the state
\* left as it was; and the state becomes Rendering only in the continuation
\* of a transition that was started (so never for a submit that ran with
\* transitions disabled).
C14_DisabledBypassesTransition ==
  /\ [][~config.enableSeamlessTransition =>
          /\ \A c \in CallIds :
               calls[c].pc # "transition" => calls'[c].pc # "transition"
          /\ state # TRANSITIONING => state' # TRANSITIONING
          /\ appendLog' # appendLog =>
               /\ ready' = Append(ready, appendLog'[Len(appendLog')])
               /\ UNCHANGED <<state, stateChanged>>]_vars
  /\ [][(state # RENDERING /\ state' = RENDERING) =>
          \E c \in CallIds : calls[c].pc = "transition"]_vars

\* A two-segment submit ran to the end with transitions disabled: both
\* streams announced, and only Processing and Idle were ever set.
C14_Witness ==
  /\ ~config.enableSeamlessTransition
  /\ \E c \in CallIds : calls[c].pc = "resolved" /\ Len(calls[c].segments) = 2
  /\ Len(ready) = 2
  /\ stateChanged = 2

\* The first submit of a session: it finds the controller Idle, since
\* nothing has set the state before it.
IsFirstSubmit(c) == \A d \in CallIds : d >= c

\* C15: a submit started in Idle moves the state from Idle to Processing;
\* the transition of its last segment ends with the state going from
\* Transitioning to Rendering; and when it completes the state goes from
\* Rendering (or from Processing, when nothing was transitioned) to Idle.
\* Stated for the first submit, which always starts in Idle.
C15_SubmitStateSequence ==
  [][\A c \in CallIds :
       IsFirstSubmit(c) =>
         /\ (calls[c].pc = "new" /\ calls'[c].pc = "segmentText")
              => state = IDLE /\ state' = PROCESSING
         /\ (calls[c].pc = "transition" /\ calls'[c].pc = "triggered"
             /\ calls[c].i = Len(calls[c].segments))
              => state = TRANSITIONING /\ state' = RENDERING
         /\ (calls[c].pc # "resolved" /\ calls'[c].pc = "resolved")
              => state \in {PROCESSING, RENDERING} /\ state' = IDLE]_vars

workingConfig(c) == config

\* Call c still has a stream to hand to triggerSeamlessTransition.
SegmentsLeft(c) ==
  \/ calls[c].pc = "segmentText" /\ Len(calls[c].segments) > 0
  \/ calls[c].pc = "generate"
  \/ calls[c].pc \in {"transition", "triggered"}
     /\ calls[c].i < Len(calls[c].segments)

\* C17: a change of the configuration alters no stream already generated,
\* and the setting a submit in flight works under for its remaining
\* segments stays the one in force when the submit began.
C17_ConfigFixedDuringSubmit ==
  /\ [][config' # config => UNCHANGED <<history, ready, appendLog>>]_vars
  /\ [][\A c \in CallIds :
          (calls[c].pc \in InFlightPcs /\ calls'[c] = calls[c]
           /\ SegmentsLeft(c))
            => workingConfig(c)'.enableSeamlessTransition
                 = workingConfig(c).enableSeamlessTransition]_vars

\* C18: after destroy() no recovery timer changes the state.
C18_NoRecoveryAfterDestroy ==
  [][(destroyed /\ timers' # timers /\ timers' \subseteq timers)
       => UNCHANGED <<state, stateChanged>>]_vars

\* C19: a push by the holder of a handed-out history leaves the
\* controller's own history as it was, and an append or clear by the
\* controller leaves what the holder sees as it was.
C19_HistoryViewIsSnapshot ==
  [][/\ hs'.op = "holderPush" => Deref(hs.own)' = Deref(hs.own)
     /\ (hs'.op \in {"addToHistory", "clearHistory"} /\ hs.view.kind # "none")
          => Deref(viewObject)' = Deref(viewObject)]_vars

RECURSIVE Covers(_, _, _)
\* content is the returned sentences in order, each followed by white space
\* (possibly none) that was trimmed, and then the buffer.
Covers(content, returned, buffer) ==
  IF returned = <<>> THEN content = buffer
  ELSE LET r == Head(returned)
           rest == SubSeq(content, Len(r) + 1, Len(content))
       IN  /\ Len(content) >= Len(r)
           /\ SubSeq(content, 1, Len(r)) = r
           /\ \E k \in 0..RunLength(rest, WhiteSpace, TRUE) :
                Covers(SubSeq(rest, k + 1, Len(rest)), Tail(returned), buffer)

\* C20: as long as the content has only grown by appending, the returned
\* sentences in order, with the white space trimmed after them, followed by
\* the retained buffer, are exactly the latest content (so no text is
\* returned twice and none is lost); a call with unchanged content returns
\* nothing and changes nothing; and a call with grown content works on the
\* buffer it found extended by the new suffix only.
C20_OnlySuffixIsNew ==
  sg.appendOnly =>
    /\ Covers(sg.lastProcessedContent, sg.returned, sg.sentenceBuffer)
    /\ sg.op = "repeat" =>
         /\ sg.result = <<>>
         /\ sg.sentenceBuffer = sg.before
         /\ sg.lastProcessedContent = sg.prev
    /\ sg.op = "grow" =>
         LET suffix == SubSeq(sg.lastProcessedContent, Len(sg.prev) + 1,
                              Len(sg.lastProcessedContent))
         IN  /\ sg.lastProcessedContent = sg.prev \o suffix
             /\ Covers(sg.before \o suffix, sg.result, sg.sentenceBuffer)

\* Sentences were returned in two calls, white space was trimmed after one
\* of them, and text is still held back in the buffer.
C20_Witness ==
  /\ sg.appendOnly
  /\ Len(sg.returned) >= 2
  /\ sg.sentenceBuffer # <<>>
  /\ Len(sg.returned[1]) + Len(sg.returned[2]) + Len(sg.sentenceBuffer)
       < Len(sg.lastProcessedContent)

\* C21 (as stated): when processNewContent receives content shorter than
\* the content it saw before, the sentence buffer and the seen content are
\* both cleared and the call returns no sentence.
C21_SeenContentCleared ==
  sg # <<>> /\ sg.op = "shorten" =>
    /\ sg.sentenceBuffer = <<>>
    /\ sg.lastProcessedContent = <<>>
    /\ sg.result = <<>>

\* C21 (amended): when processNewContent receives content shorter than the
\* content it saw before, the sentence buffer is cleared, the call returns
\* no sentence and nothing is added to what was returned, and the seen
\* content becomes the shorter content itself.
C21_ShorterContentResets ==
  sg # <<>> /\ sg.op = "shorten" =>
    /\ sg.sentenceBuffer = <<>>
    /\ sg.result = <<>>
    /\ Len(sg.lastProcessedContent) < Len(sg.prev)
    /\ sg.lastProcessedContent = SubSeq(sg.prev, 1, Len(sg.lastProcessedContent))

\* A shorter, non-empty content arrived while the buffer held text.
C21_Witness ==
  /\ sg # <<>>
  /\ sg.op = "shorten"
  /\ sg.before # <<>>
  /\ sg.lastProcessedContent # <<>>
  /\ sg.sentenceBuffer = <<>>

\* Some text of buf is followed, later in buf, by a sentence end.
HasCompleteSentence(buf) ==
  \E i, j \in 1..Len(buf) :
    /\ i < j
    /\ buf[i] \notin sentenceEnds \cup WhiteSpace
    /\ buf[j] \in sentenceEnds

\* C22: after every processNewContent call the segmenter has returned the
\* terminated sentences of its buffer and keeps only the unterminated rest:
\* the buffer holds no text followed by a sentence end, and every sentence
\* returned ends with a sentence end or a clause end.
C22_BufferHoldsNoCompleteSentence ==
  sg # <<>> /\ sg.n > 0 =>
    /\ ~HasCompleteSentence(sg.sentenceBuffer)
    /\ \A k \in 1..Len(sg.returned) :
         sg.returned[k][Len(sg.returned[k])] \in sentenceEnds \cup clauseEnds

\* Every task of the StreamIntegration has ended.
StreamSettled ==
  \A k \in {"chunk", "complete"} : si.tasks[k].pc = "idle"

\* C23: when the stream has ended and processing has settled, every text
\* that was still held back when it ended (by the session or by the
\* StreamIntegration) and is not blank has been passed on to the
\* controller as one text.
C23_RemainderForwardedAtEnd ==
  si # <<>> /\ si.ended /\ StreamSettled =>
    \A h \in 1..Len(si.heldAtEnd) :
      trim(si.heldAtEnd[h]) # <<>> =>
        \E f \in 1..Len(si.forwarded) : si.forwarded[f] = si.heldAtEnd[h]

RECURSIVE Concat(_)
Concat(ss) == IF ss = <<>> THEN <<>> ELSE Head(ss) \o Concat(Tail(ss))

IsNotWhite(c) == c \notin WhiteSpace

\* t without its white space.
NonWhite(t) == SelectSeq(t, IsNotWhite)

\* C24: the texts of the segments returned by segment(text), concatenated
\* in order and without white space, are exactly the characters of text
\* that are not white space.
C24_SegmentsReconstructText ==
  sm # <<>> /\ sm.done => NonWhite(Concat(sm.segments)) = NonWhite(sm.text)

\* C25: a segment returned by segment(text) that is longer than
\* maxSegmentLength holds no punctuation mark at which splitting was
\* possible, that is none from its minSegmentLength-th character up to the
\* character before its last.
C25_LongSegmentHasNoSplitPoint ==
  sm # <<>> /\ sm.done =>
    \A k \in 1..Len(sm.segments) :
      LET seg == sm.segments[k]
      IN  Len(seg) > maxSegmentLength =>
            \A c \in minSegmentLength..(Len(seg) - 1) :
              seg[c] \notin punctuationMarks

\* A sentence longer than maxSegmentLength was split: one of its segments
\* ends at a mark and is within the limit, another is still longer than
\* the limit.
C25_Witness ==
  /\ sm # <<>>
  /\ sm.done
  /\ \E k \in 1..Len(sm.segments) : Len(sm.segments[k]) > maxSegmentLength
  /\ \E k \in 1..Len(sm.segments) :
       /\ Len(sm.segments[k]) <= maxSegmentLength
       /\ Len(sm.segments[k]) >= minSegmentLength
       /\ sm.segments[k][Len(sm.segments[k])] = ","

\* C26: two generate calls for the same segment that were given the same
\* history return the same expression, camera, scene and background.
C26_SameInputsSameChannels ==
  gm # <<>> =>
    \A i, j \in 1..Len(gm.results) :
      gm.results[i].given = gm.results[j].given =>
        \A ch \in {"expression", "camera", "scene", "background"} :
          gm.results[i].stream[ch] = gm.results[j].stream[ch]

\* Two calls for one segment and one history, whose motions differ.
C26_Witness ==
  /\ gm # <<>>
  /\ Len(gm.results) = 2
  /\ gm.history # <<>>
  /\ gm.results[1].given = gm.results[2].given
  /\ gm.results[1].stream.motion # gm.results[2].stream.motion

\* The segment neither is emphasized nor has one of the four emotions that
\* choose a camera.
Unmarked(seg) ==
  ~seg.emphasis /\ seg.emotion \notin {"surprised", "fear", "sad", "cry"}

\* C27: for a segment that is not emphasized and whose emotion is none of
\* surprised, fear, sad, cry, generate returns the camera of the latest
\* history entry when that is not "none", and the configured default when
\* the history is empty or its latest camera is "none".
C27_CameraHysteresis ==
  gm # <<>> =>
    \A k \in 1..Len(gm.results) :
      LET h == gm.results[k].given
          camera == gm.results[k].stream.camera
      IN  Unmarked(gm.segment) =>
            /\ h # <<>> /\ h[Len(h)].camera # "none" => camera = h[Len(h)].camera
            /\ h = <<>> \/ h[Len(h)].camera = "none" =>
                 camera = gm.config.defaultCamera

\* The latest camera of the history is neither "none" nor the default,
\* and an unmarked segment got it.
C27_Witness ==
  /\ gm # <<>>
  /\ Unmarked(gm.segment)
  /\ gm.results # <<>>
  /\ gm.history # <<>>
  /\ gm.history[Len(gm.history)].camera \notin {"none", gm.config.defaultCamera}
  /\ gm.results[1].stream.camera = gm.history[Len(gm.history)].camera

\* C30: generate chooses the camera by strict priority: close-up tracking
\* for an emphasized segment whatever its emotion; else front tracking for
\* surprised or fear; else back tracking for sad or cry.
C30_CameraPriority ==
  gm # <<>> =>
    \A k \in 1..Len(gm.results) :
      LET camera == gm.results[k].stream.camera
          seg == gm.segment
      IN  /\ seg.emphasis => camera = "track_face"
          /\ ~seg.emphasis /\ seg.emotion \in {"surprised", "fear"} =>
               camera = "track_front"
          /\ ~seg.emphasis /\ seg.emotion \in {"sad", "cry"} =>
               camera = "track_back"

\* An emphasized segment whose emotion alone would choose back tracking
\* got the close-up, with a history whose latest camera is yet another.
C30_Witness ==
  /\ gm # <<>>
  /\ gm.segment.emphasis
  /\ gm.segment.emotion = "sad"
  /\ gm.results # <<>>
  /\ gm.history # <<>>
  /\ gm.history[Len(gm.history)].camera = "track_front"
  /\ gm.results[1].stream.camera = "track_face"

\* The streams whose speech playback failed.
SpeechFailed == {id \in DOMAIN sp : sp[id].outcome # "completed"}

\* C28: the step in which the speech playback of a stream fails changes
\* nothing of the controller or of the submits in flight: no state change
\* (so no Error), no error event, every call where it was.
C28_SpeechFailureContained ==
  [][SpeechFailed' # SpeechFailed => UNCHANGED controllerVars]_vars

\* Speech failed for the first stream of a two-segment submit while that
\* submit was in flight; the submit went on to emit its second stream and
\* resolved, with no error event and the controller Idle again.
C28_Witness ==
  \E id \in SpeechFailed :
    LET c == origin[id].call
    IN  /\ origin[id].idx = 1
        /\ calls[c].pc = "resolved"
        /\ Len(calls[c].segments) = 2
        /\ sp[id].at < Len(ready)
        /\ errors = <<>>
        /\ state = IDLE

\* C29: a transition that has resolved went through the cross-fade step
\* exactly when cross-fade is enabled and the scene or the background of
\* its stream differs from that of the stream before it.
C29_CrossFadeIffSceneChanged ==
  tm # <<>> /\ tm.pc = "resolved" =>
    (tm.crossFaded <=>
       /\ enableCrossFade
       /\ \/ tm.stream.scene # tm.prev.scene
          \/ tm.stream.background # tm.prev.background)

\* C31: for a segment whose text holds no scene keyword, generate returns
\* the scene of the most recent of the last five history entries that has
\* a scene, and "default" when none of them has one.
C31_SceneOfMostRecentEntry ==
  gm # <<>> =>
    \A k \in 1..Len(gm.results) :
      LET h == gm.results[k].given
          recent == {i \in 1..Len(h) : i > Len(h) - 5 /\ h[i].scene # "undefined"}
      IN  gm.segment.keyword = "none" =>
            gm.results[k].stream.scene =
              IF recent # {} THEN h[Max(recent)].scene ELSE "default"

\* The table entries whose keyword occurs in t.
KeywordsIn(t) ==
  {i \in 1..Len(emotionKeywords) : includes(t, emotionKeywords[i].keyword)}

\* e is the emotion the rule gives to the text t: that of the first table
\* entry whose keyword occurs in t; with no keyword, surprised for a text
\* with an exclamation or question mark and neutral otherwise.
EmotionByRule(e, t) ==
  IF KeywordsIn(t) # {}
  THEN \E i \in KeywordsIn(t) :
         /\ e = emotionKeywords[i].emotion
         /\ \A j \in KeywordsIn(t) : i <= j
  ELSE e = IF \E c \in 1..Len(t) : t[c] \in {"!", "?"}
           THEN "surprised" ELSE "neutral"

\* C32 (as stated): every segment's emotion is the one the rule gives to
\* the segment's own text.
C32_EmotionOfSegmentText ==
  sm # <<>> /\ sm.done =>
    /\ Len(sm.emotions) = Len(sm.segments)
    /\ \A k \in 1..Len(sm.segments) :
         EmotionByRule(sm.emotions[k].emotion, sm.segments[k])

\* C32 (amended): every segment's emotion is the one the rule gives to the
\* sentence the segment is part of (the segment itself, unless a sentence
\* longer than maxSegmentLength was split).
C32_EmotionOfSentence ==
  sm # <<>> /\ sm.done =>
    /\ Len(sm.emotions) = Len(sm.segments)
    /\ \A k \in 1..Len(sm.segments) :
         /\ EmotionByRule(sm.emotions[k].emotion, sm.emotions[k].of)
         /\ Len(sm.emotions[k].of) <= maxSegmentLength =>
              sm.emotions[k].of = sm.segments[k]

\* A segment holds a keyword that is not the first of the table, a keyword
\* that comes before it in the table but later in the text, and an
\* exclamation mark, and has the emotion of the keyword first in the table.
C32_Witness ==
  /\ sm # <<>>
  /\ sm.done
  /\ \E k \in 1..Len(sm.segments) :
       /\ sm.segments[k] = <<"s", "q", "k", "x", "!">>
       /\ sm.emotions[k].emotion = "happy"

\* C33: no segment holds a soft separator that has at least ten characters
\* before it and more of the clause after it: such a separator ends a
\* segment.
C33_SoftSeparatorIsBoundary ==
  sm # <<>> /\ sm.done =>
    \A k \in 1..Len(sm.segments) :
      \A c \in 11..(Len(sm.segments[k]) - 1) :
        sm.segments[k][c] = "," => sm.segments[k][c + 1] \in SentenceBoundary

\* The adapter calls whose controller.processAIResponse has not settled.
AdapterInFlight == {c \in CallIds : calls[c].via = "adapter" /\ calls[c].pc \in InFlightPcs}

\* At most one call is in flight; the flag is set exactly while a call that
\* was let through has not run its finally block; a dropped call has not
\* got to the controller.
C34_OneInFlight ==
  /\ Cardinality(AdapterInFlight) <= 1
  /\ isProcessing <=>
       \E c \in CallIds : /\ calls[c].via = "adapter"
                          /\ calls[c].pc \in InFlightPcs \cup {"resolved", "rejected"}
                          /\ ~calls[c].fin
  /\ \A c \in CallIds :
       calls[c].pc = "dropped" => calls[c].segments = <<>> /\ calls[c].i = 0

\* A call is dropped only while another is in progress, and dropping it
\* changes nothing in the controller; a dropped call stays dropped.
C34_DropStep ==
  \A c \in CallIds :
    /\ calls[c].pc = "new" /\ calls'[c].pc = "dropped" =>
         /\ AdapterInFlight # {} \/ \E d \in CallIds : calls[d].pc \in {"resolved", "rejected"} /\ ~calls[d].fin
         /\ UNCHANGED <<state, stateChanged, history, ready, errors, isProcessing>>
    /\ calls[c].pc = "new" /\ isProcessing => calls'[c].pc \in {"new", "dropped"}
    /\ calls[c].pc = "dropped" => calls'[c].pc = "dropped"

\* C34: through the adapter at most one processAIResponse call is in flight,
\* a call that arrives meanwhile is dropped without reaching the controller
\* and is not queued, and the in-progress flag is cleared after the call in
\* flight resolves or rejects: a set flag is always cleared again.
C34_AdapterSerialises ==
  /\ []C34_OneInFlight
  /\ [][C34_DropStep]_vars
  /\ (isProcessing ~> ~isProcessing)

\* The second call was dropped while the first was in flight, the first
\* failed, and the flag is clear again.
C34_Witness ==
  /\ calls[1].via = "adapter"
  /\ calls[1].pc = "rejected"
  /\ calls[1].fin
  /\ calls[2].pc = "dropped"
  /\ ~isProcessing

\* C35: while the state is Idle no processAIResponse call is in progress:
\* no call is between its start and the end of its loop, so no segment is
\* being generated or transitioned and no 'renderStreamReady' is to come.
C35_IdleMeansNoCallInProgress ==
  state = IDLE => \A c \in CallIds : calls[c].pc \notin InFlightPcs

\* C36: while the state is Idle or Error every instruction in the history
\* has been announced by a 'renderStreamReady' event.
C36_HistoryHoldsAnnouncedOnly ==
  state \in {IDLE, ERROR} =>
    \A k \in 1..Len(history.streams) :
      history.streams[k].streamId \in Range(ready)

\* C37: the adapter handles one instruction at a time: of the instructions
\* whose handling has begun, at most one has not finished its speech.
C37_OneInstructionAtATime ==
  Cardinality(processedStreamIds \ DOMAIN sp) <= 1

\* C38: when the stream has ended and processing has settled, the texts
\* handed to adapter.handleAIResponse are, in order and white space apart,
\* the texts handleStreamChunk was given: nothing dropped, nothing twice.
C38_EverySentencePassedOnce ==
  si # <<>> /\ si.ended /\ StreamSettled =>
    NonWhite(Concat(si.passed)) = NonWhite(Concat(si.given))

\* The call whose failure was the last to be reported.
LastFailedCall == origin[errors[Len(errors)].error.of].call

\* C39: an Error state is reset to Idle only by the firing of the recovery
\* timer that the failure which set this Error scheduled.
C39_ErrorResetByOwnTimer ==
  [][state = ERROR /\ state' = IDLE =>
       /\ errors # <<>>
       /\ timers' = timers \ {LastFailedCall}
       /\ timers' # timers]_vars

\* C40: after destroy() the history is empty with cursor -1, no module is
\* registered, and nothing has been appended to the history since.
C40_DestroyedStaysEmpty ==
  destroyed =>
    /\ history = clearedHistory
    /\ modules = {}
    /\ Len(appendLog) = clearedAt

====
